---- MODULE Spec2Model ----
(***************************************************************************)
(* Model of src/extract_data_from_repo.py: the line classifier, the span   *)
(* sampler (randomly_select_middle_section), split_code and the example    *)
(* builder (generate_random_examples).                                     *)
(*                                                                         *)
(* A text is a sequence of one-character strings; a file is a sequence of  *)
(* lines as readlines() returns them (each line keeps its terminator).     *)
(* Line numbers are 1-based as in the coverage data; indices into          *)
(* executed_lines are 0-based as in the source, so executed_lines[i] of    *)
(* the source is executed[i + 1] here.                                     *)
(***************************************************************************)
EXTENDS Integers, Sequences, FiniteSets, TLC

VARIABLES
    index,          \* coverage index with the disk content: [lines, executed, readable]
    num_examples,   \* argument num_examples of generate_random_examples
    max_retries,    \* argument max_retries of generate_random_examples
    examples,       \* local examples of generate_random_examples
    retries,        \* local retries of generate_random_examples
    file_path,      \* position in index of the last file picked, 0 before any pick
    file_lines,     \* argument file_lines of a direct sampler call
    executed_lines, \* argument executed_lines of a direct sampler call
    min_middle,     \* argument min_middle of a direct sampler call
    max_middle,     \* argument max_middle of a direct sampler call
    result,         \* what the direct sampler call returned: [kind, span]
    pc,             \* position of the run: "loop", "call", "done", "raised"
    error,          \* the call that raised: "", "open" or "randint"
    iterations,     \* history: while-loop iterations started
    failures,       \* history: failed attempts over the whole run
    sinceAppend,    \* history: failed attempts since the last append
    reads,          \* history: files opened and read
    line,           \* argument of the line classifier
    cls             \* results of the line classifier on line

vars == <<index, num_examples, max_retries, examples, retries, file_path, file_lines,
          executed_lines, min_middle, max_middle, result, pc, error,
          iterations, failures, sinceAppend, reads, line, cls>>

-----------------------------------------------------------------------------
(* Bounds of the model. *)

MaxIndent == 4        \* leading whitespace characters of a classified line
MaxFileLines == 5     \* lines of a file
MaxFiles == 2         \* files of a coverage index
BatchSize == 1        \* num_examples and max_retries of the runs over every file
MaxExamples == 2      \* largest num_examples
MaxRetries == 2       \* largest max_retries
MaxMiddle == 2        \* largest min_middle / max_middle of a direct sampler call

-----------------------------------------------------------------------------
(* Texts. *)

Min(a, b) == IF a < b THEN a ELSE b
Max(a, b) == IF a > b THEN a ELSE b

\* str.isspace() on the characters of the model: space, tab, line feed.
IsSpace(c) == c \in {" ", "\t", "\n"}

RECURSIVE LStrip(_)
LStrip(s) ==
    IF s = <<>> THEN <<>>
    ELSE IF IsSpace(Head(s)) THEN LStrip(Tail(s)) ELSE s

RECURSIVE RStrip(_)
RStrip(s) ==
    IF s = <<>> THEN <<>>
    ELSE IF IsSpace(s[Len(s)]) THEN RStrip(SubSeq(s, 1, Len(s) - 1)) ELSE s

Strip(s) == RStrip(LStrip(s))

StartsWith(s, p) == Len(s) >= Len(p) /\ SubSeq(s, 1, Len(p)) = p

RECURSIVE Join(_)
Join(ls) == IF ls = <<>> THEN <<>> ELSE Head(ls) \o Join(Tail(ls))

\* str.splitlines(keepends=True) for the terminator "\n".
RECURSIVE SplitLinesFrom(_, _)
SplitLinesFrom(s, acc) ==
    IF s = <<>> THEN (IF acc = <<>> THEN <<>> ELSE <<acc>>)
    ELSE IF Head(s) = "\n" THEN <<Append(acc, "\n")>> \o SplitLinesFrom(Tail(s), <<>>)
    ELSE SplitLinesFrom(Tail(s), Append(acc, Head(s)))

SplitLines(s) == SplitLinesFrom(s, <<>>)

-----------------------------------------------------------------------------
(* Line classifier. *)

DefKeyword == <<"d", "e", "f", " ">>
ClassKeyword == <<"c", "l", "a", "s", "s", " ">>
IndentUnit == <<" ", " ", " ", " ">>

\* re.match(r'^\s*(def |class )', line): \s* can only stop at the first
\* character that is not whitespace, where a keyword has to begin.
is_function_or_class_declaration(l) ==
    StartsWith(LStrip(l), DefKeyword) \/ StartsWith(LStrip(l), ClassKeyword)

is_decorator(l) == StartsWith(Strip(l), <<"@">>)

is_indented(l) == StartsWith(l, IndentUnit)

\* Variant: trailing whitespace is not counted (len(line.rstrip()) - len(line.strip())).
get_indentation_level_trimmed(l) == Len(RStrip(l)) - Len(Strip(l))

get_indentation_level(l) == Len(l) - Len(LStrip(l))

contains_function_definition_with_body(lines) ==
    \E i \in 1..Len(lines) :
        /\ is_function_or_class_declaration(lines[i])
        /\ i + 1 <= Len(lines)
        /\ is_indented(lines[i + 1])

-----------------------------------------------------------------------------
(* Span sampler: randomly_select_middle_section. *)

SamplerAttempts == 10         \* for _ in range(10)
DefaultMinMiddle == 1         \* min_middle=1
DefaultMaxMiddle == 10        \* max_middle=10

\* range(lo, hi) as a list.
Range(lo, hi) == [k \in 1..Max(hi - lo, 0) |-> lo + k - 1]

\* np.clip(x, lo, hi)
Clip(x, lo, hi) == Min(Max(x, lo), hi)

\* Indentation levels of the declarations in file_lines[:executed_lines[0]].
prefix_function_indents(fl, ex) ==
    { get_indentation_level(fl[i]) :
        i \in { j \in 1..Min(ex[1], Len(fl)) : is_function_or_class_declaration(fl[j]) } }

\* int(np.clip(np.random.normal(mean_index, std_dev), 0, n - min_middle)):
\* a standard deviation of 0 yields mean_index itself, any other one yields
\* any real, so any index of the clipping interval.
StartIndexChoices(n, mn) ==
    LET mean_index == n \div 2
        std_dev == n \div 4
    IN  IF std_dev = 0 THEN {Clip(mean_index, 0, n - mn)} ELSE 0..(n - mn)

\* random.randint(min_middle, max_middle); the set is empty where randint raises.
LengthChoices(mn, mx) == mn..mx

end_index(start_index, len, n) == Min(start_index + len, n - 1)

\* list(range(executed_lines[start_index], executed_lines[end_index]))
middle_lines(ex, start_index, len) ==
    Range(ex[start_index + 1], ex[end_index(start_index, len, Len(ex)) + 1])

\* The test of one pass on its span; indents is prefix_function_indents,
\* computed once before the passes.
invalid_section(fl, indents, ml) ==
    LET middle_indent == get_indentation_level(fl[ml[1]])
    IN  \E k \in 1..Len(ml) :
            \/ is_function_or_class_declaration(fl[ml[k]])
            \/ get_indentation_level(fl[ml[k]]) \in indents
            \/ is_decorator(fl[ml[k]])
            \/ middle_indent \in indents

\* The draws (start_index, length) of one pass of "for _ in range(10)".
Draws(ex, mn, mx) == StartIndexChoices(Len(ex), mn) \X LengthChoices(mn, mx)

\* The pass that draws span ml returns it.
SpanReturns(fl, indents, ml) == ml # <<>> /\ ~invalid_section(fl, indents, ml)

None == [kind |-> "none", span |-> <<>>]
Raised == [kind |-> "raise", span |-> <<>>]
Span(ml) == [kind |-> "span", span |-> ml]

\* What the passes still to run can end in: a pass returns its span, or it
\* falls through to the next pass; randint raises on an empty range, after
\* the pass has drawn its start index; after the last pass None is returned.
RECURSIVE PassOutcomes(_, _, _, _)
PassOutcomes(passes, spans, falls, raises) ==
    IF passes = 0 THEN {None}
    ELSE IF raises THEN {Raised}
    ELSE spans \cup (IF falls THEN PassOutcomes(passes - 1, spans, falls, raises) ELSE {})

\* The spans the draws of a pass yield are the same in every pass.
randomly_select_middle_section(fl, ex, mn, mx) ==
    IF Len(ex) < mn THEN {None}
    ELSE LET indents == prefix_function_indents(fl, ex)
             drawn == { middle_lines(ex, d[1], d[2]) : d \in Draws(ex, mn, mx) }
             returning == { ml \in drawn : SpanReturns(fl, indents, ml) }
         IN  PassOutcomes(SamplerAttempts,
                          { Span(ml) : ml \in returning },
                          returning # drawn,
                          LengthChoices(mn, mx) = {})

-----------------------------------------------------------------------------
(* split_code and the acceptance test of generate_random_examples. *)

SeqMin(s) == CHOOSE m \in {s[k] : k \in 1..Len(s)} : \A k \in 1..Len(s) : m <= s[k]
SeqMax(s) == CHOOSE m \in {s[k] : k \in 1..Len(s)} : \A k \in 1..Len(s) : m >= s[k]

\* [line for i, line in enumerate(file_lines, 1) if keep(i)]
RECURSIVE SelectLines(_, _, _)
SelectLines(fl, i, keep) ==
    IF i > Len(fl) THEN <<>>
    ELSE (IF i \in keep THEN <<fl[i]>> ELSE <<>>) \o SelectLines(fl, i + 1, keep)

SplitPrefix(fl, ml) == SelectLines(fl, 1, {i \in 1..Len(fl) : i < SeqMin(ml)})
SplitMiddle(fl, ml) == SelectLines(fl, 1, {i \in 1..Len(fl) : \E k \in 1..Len(ml) : ml[k] = i})
\* Variant: the suffix starts at the last line of the middle (i >= max).
SplitSuffixFromLast(fl, ml) == SelectLines(fl, 1, {i \in 1..Len(fl) : i >= SeqMax(ml)})

SplitSuffix(fl, ml) == SelectLines(fl, 1, {i \in 1..Len(fl) : i > SeqMax(ml)})

\* The triple returned by split_code; none stands for (None, None, None).
split_code(fl, ml) ==
    IF ~contains_function_definition_with_body(SplitPrefix(fl, ml))
    THEN [none |-> TRUE, prefix |-> <<>>, middle |-> <<>>, suffix |-> <<>>]
    ELSE [none |-> FALSE,
          prefix |-> Join(SplitPrefix(fl, ml)),
          middle |-> Join(SplitMiddle(fl, ml)),
          suffix |-> Join(SplitSuffix(fl, ml))]

\* Variant: the middle is not stripped before the test (if prefix and middle).
MeaningfulSplitUnstripped(sp) == ~sp.none /\ sp.prefix # <<>> /\ sp.middle # <<>>

\* if prefix and middle.strip()
MeaningfulSplit(sp) == ~sp.none /\ sp.prefix # <<>> /\ Strip(sp.middle) # <<>>

\* Variant: one retry too many (retries <= max_retries).
LoopConditionInclusive(exs, n, r, m) == Len(exs) < n /\ r <= m

\* while len(examples) < num_examples and retries < max_retries
LoopCondition(exs, n, r, m) == Len(exs) < n /\ r < m

-----------------------------------------------------------------------------
(* Inputs. *)

DefLine       == <<"d", "e", "f", " ", "f", "\n">>
BodyLine      == <<" ", " ", " ", " ", "x", "\n">>
PlainLine     == <<"y", "\n">>
DecoratorLine == <<"@", "w", "\n">>
BlankLine     == <<"\n">>

\* The lines of the files of a coverage index.
LineLib == {DefLine, BodyLine, PlainLine, BlankLine}

\* The lines of the files of a direct sampler call.
SamplerLineLib == LineLib \cup {DecoratorLine}

RECURSIVE Ascending(_)
Ascending(S) ==
    IF S = {} THEN <<>>
    ELSE LET m == CHOOSE x \in S : \A y \in S : x <= y
         IN  <<m>> \o Ascending(S \ {m})

\* A file on disk with its coverage record: the executed line numbers are an
\* ascending, duplicate-free list of line numbers of the file.
ReadableFile(t, S) == [lines |-> t, executed |-> Ascending(S), readable |-> TRUE]

\* A file the coverage data lists and open() cannot read.
UnreadableFile(S) == [lines |-> <<>>, executed |-> Ascending(S), readable |-> FALSE]

NoClass == [done |-> FALSE, depth |-> 0, declaration |-> FALSE,
            decorator |-> FALSE, indented |-> FALSE]

-----------------------------------------------------------------------------
(* generate_random_examples. *)

InitRun ==
    /\ examples = <<>>
    /\ retries = 0
    /\ file_path = 0
    /\ pc = "loop"
    /\ error = ""
    /\ iterations = 0
    /\ failures = 0
    /\ sinceAppend = 0
    /\ reads = 0
    /\ file_lines = <<>>
    /\ executed_lines = <<>>
    /\ min_middle = DefaultMinMiddle
    /\ max_middle = DefaultMaxMiddle
    /\ result = None
    /\ line = <<>>
    /\ cls = NoClass

\* A coverage index of one file, of any content; batches of BatchSize.
InitBuilder ==
    /\ \/ \E n \in 1..MaxFileLines : \E t \in [1..n -> LineLib], S \in SUBSET (1..n) :
                index = <<ReadableFile(t, S)>>
       \/ \E S \in SUBSET (1..MaxFileLines) : index = <<UnreadableFile(S)>>
    /\ num_examples = BatchSize
    /\ max_retries = BatchSize
    /\ InitRun

inputs == <<index, num_examples, max_retries, line, cls>>
call == <<file_lines, executed_lines, min_middle, max_middle, result>>

\* while len(examples) < num_examples and retries < max_retries, and
\* file_path, file_data = random.choice(all_files)
Picks(f) ==
    /\ pc = "loop"
    /\ LoopCondition(examples, num_examples, retries, max_retries)
    /\ f \in 1..Len(index)
    /\ file_path' = f
    /\ iterations' = iterations + 1

\* retries += 1; continue
CountRetry ==
    /\ retries' = retries + 1
    /\ failures' = failures + 1
    /\ sinceAppend' = sinceAppend + 1
    /\ UNCHANGED <<examples, pc, error>>

\* The loop condition fails: return examples.
Return ==
    /\ pc = "loop"
    /\ ~LoopCondition(examples, num_examples, retries, max_retries)
    /\ pc' = "done"
    /\ UNCHANGED <<inputs, call, examples, retries, file_path, error,
                   iterations, failures, sinceAppend, reads>>

\* The picked file has no executed lines.
SkipEmpty(f) ==
    /\ Picks(f)
    /\ index[f].executed = <<>>
    /\ CountRetry
    /\ UNCHANGED <<inputs, call, reads>>

\* The picked file has executed lines and open() raises.
OpenRaises(f) ==
    /\ Picks(f)
    /\ index[f].executed # <<>>
    /\ ~index[f].readable
    /\ pc' = "raised"
    /\ error' = "open"
    /\ UNCHANGED <<inputs, call, examples, retries, failures, sinceAppend, reads>>

\* The picked file is read and the sampler returns None.
NoSpan(f) ==
    /\ Picks(f)
    /\ index[f].executed # <<>>
    /\ index[f].readable
    /\ None \in randomly_select_middle_section(index[f].lines, index[f].executed,
                                               DefaultMinMiddle, DefaultMaxMiddle)
    /\ reads' = reads + 1
    /\ CountRetry
    /\ UNCHANGED <<inputs, call>>

\* The picked file is read, the sampler returns a span and the split fails
\* the acceptance test.
SplitRejected(f) ==
    /\ Picks(f)
    /\ index[f].executed # <<>>
    /\ index[f].readable
    /\ \E o \in randomly_select_middle_section(index[f].lines, index[f].executed,
                                               DefaultMinMiddle, DefaultMaxMiddle) :
          /\ o.kind = "span"
          /\ ~MeaningfulSplit(split_code(index[f].lines, o.span))
    /\ reads' = reads + 1
    /\ CountRetry
    /\ UNCHANGED <<inputs, call>>

\* The picked file is read, the sampler returns a span, the split passes the
\* acceptance test and the example is appended.
AppendExample(f) ==
    /\ Picks(f)
    /\ index[f].executed # <<>>
    /\ index[f].readable
    /\ \E o \in randomly_select_middle_section(index[f].lines, index[f].executed,
                                               DefaultMinMiddle, DefaultMaxMiddle) :
          /\ o.kind = "span"
          /\ LET sp == split_code(index[f].lines, o.span)
             IN  /\ MeaningfulSplit(sp)
                 /\ examples' = Append(examples,
                        [file_path |-> f, prefix |-> sp.prefix,
                         middle |-> sp.middle, suffix |-> sp.suffix])
    /\ reads' = reads + 1
    /\ retries' = 0
    /\ sinceAppend' = 0
    /\ UNCHANGED <<inputs, call, pc, error, failures>>

Next ==
    \/ Return
    \/ \E f \in 1..MaxFiles : SkipEmpty(f)
    \/ \E f \in 1..MaxFiles : OpenRaises(f)
    \/ \E f \in 1..MaxFiles : NoSpan(f)
    \/ \E f \in 1..MaxFiles : SplitRejected(f)
    \/ \E f \in 1..MaxFiles : AppendExample(f)

Spec == InitBuilder /\ [][Next]_vars

-----------------------------------------------------------------------------
(* Runs over indexes of several files, with every batch size and budget.   *)

\* A file whose draws can end in an appended example, a rejected split or
\* no span.
MixedFile == ReadableFile(<<DefLine, BodyLine, BodyLine, BodyLine>>, {1, 2, 3, 4})
\* A file with a single executed line.
SparseFile == ReadableFile(<<DefLine, BodyLine>>, {2})
\* A file the tests never ran.
EmptyFile == ReadableFile(<<PlainLine>>, {})
\* A file that is listed and cannot be read.
MissingFile == UnreadableFile({1})

Corpus == {MixedFile, SparseFile, EmptyFile, MissingFile}

InitBudget ==
    /\ \E n \in 1..MaxFiles : index \in [1..n -> Corpus]
    /\ num_examples \in 0..MaxExamples
    /\ max_retries \in 0..MaxRetries
    /\ InitRun

SpecBudget == InitBudget /\ [][Next]_vars

-----------------------------------------------------------------------------
(* Direct calls of randomly_select_middle_section. *)

InitSampler ==
    /\ \E n \in 1..MaxFileLines :
          \E t \in [1..n -> SamplerLineLib], S \in SUBSET (1..n) :
                /\ file_lines = t
                /\ executed_lines = Ascending(S)
    /\ min_middle \in 1..MaxMiddle
    /\ max_middle \in 1..MaxMiddle
    /\ result = None
    /\ pc = "call"
    /\ error = ""
    /\ index = <<>>
    /\ num_examples = 0
    /\ max_retries = 0
    /\ examples = <<>>
    /\ retries = 0
    /\ file_path = 0
    /\ iterations = 0
    /\ failures = 0
    /\ sinceAppend = 0
    /\ reads = 0
    /\ line = <<>>
    /\ cls = NoClass

builder == <<index, num_examples, max_retries, examples, retries, file_path,
             iterations, failures, sinceAppend, reads, line, cls>>

SamplerOutcome(o) ==
    /\ pc = "call"
    /\ o \in randomly_select_middle_section(file_lines, executed_lines,
                                           min_middle, max_middle)
    /\ result' = o
    /\ UNCHANGED <<builder, file_lines, executed_lines, min_middle, max_middle>>

\* return middle_lines
SamplerReturnsSpan ==
    \E o \in {Span(Range(a, b)) : a \in 1..MaxFileLines, b \in 1..MaxFileLines} :
        /\ SamplerOutcome(o)
        /\ pc' = "done"
        /\ error' = error

\* return None
SamplerReturnsNone ==
    /\ SamplerOutcome(None)
    /\ pc' = "done"
    /\ error' = error

\* random.randint raises ValueError
SamplerRaises ==
    /\ SamplerOutcome(Raised)
    /\ pc' = "raised"
    /\ error' = "randint"

NextSampler == SamplerReturnsSpan \/ SamplerReturnsNone \/ SamplerRaises

SpecSampler == InitSampler /\ [][NextSampler]_vars

-----------------------------------------------------------------------------
(* Calls of the line classifier. *)

Blanks(n) == UNION { [1..k -> {" ", "\t"}] : k \in 0..n }

Contents == { <<>>, <<"x">>, <<"@", "w">>, <<"d", "e", "f", " ", "f">>,
              <<"d", "e", "f">>, <<"c", "l", "a", "s", "s", " ", "A">>,
              <<"x", " ", "d", "e", "f", " ">> }

InitLines ==
    /\ \E ws \in Blanks(MaxIndent), c \in Contents, nl \in {<<>>, <<"\n">>} :
          line = ws \o c \o nl
    /\ cls = NoClass
    /\ pc = "call"
    /\ error = ""
    /\ index = <<>>
    /\ num_examples = 0
    /\ max_retries = 0
    /\ examples = <<>>
    /\ retries = 0
    /\ file_path = 0
    /\ iterations = 0
    /\ failures = 0
    /\ sinceAppend = 0
    /\ reads = 0
    /\ file_lines = <<>>
    /\ executed_lines = <<>>
    /\ min_middle = DefaultMinMiddle
    /\ max_middle = DefaultMaxMiddle
    /\ result = None

Classify ==
    /\ ~cls.done
    /\ cls' = [done |-> TRUE,
               depth |-> get_indentation_level(line),
               declaration |-> is_function_or_class_declaration(line),
               decorator |-> is_decorator(line),
               indented |-> is_indented(line)]
    /\ pc' = "done"
    /\ UNCHANGED <<index, num_examples, max_retries, examples, retries, file_path,
                   file_lines, executed_lines, min_middle, max_middle, result,
                   error, iterations, failures, sinceAppend, reads, line>>

NextLines == Classify

SpecLines == InitLines /\ [][NextLines]_vars

-----------------------------------------------------------------------------
(* Properties of the examples (specification Spec). *)

\* The lines of an example's parts, as the texts hold them.
PrefixLines(ex) == SplitLines(ex.prefix)
MiddleLines(ex) == SplitLines(ex.middle)

\* The indentation levels of the declarations among the lines of the prefix.
PrefixDeclarationIndents(ex) ==
    { get_indentation_level(PrefixLines(ex)[j]) :
        j \in { i \in 1..Len(PrefixLines(ex)) :
                  is_function_or_class_declaration(PrefixLines(ex)[i]) } }

\* C1: no line of the middle of an appended example is a declaration or a
\* decorator, and none has the indentation level of a declaration that lies
\* in the example's prefix.
C1_MiddlePurity ==
    \A i \in 1..Len(examples) :
        \A k \in 1..Len(MiddleLines(examples[i])) :
            LET l == MiddleLines(examples[i])[k]
            IN  /\ ~is_function_or_class_declaration(l)
                /\ ~is_decorator(l)
                /\ get_indentation_level(l) \notin PrefixDeclarationIndents(examples[i])

\* C2: prefix + middle + suffix of every appended example is the text of
\* the whole file, every line once and in order.
C2_SplitReconstruction ==
    \A i \in 1..Len(examples) :
        examples[i].prefix \o examples[i].middle \o examples[i].suffix
            = Join(index[examples[i].file_path].lines)

\* An example was appended whose three parts are all non-empty.
C2_Witness ==
    \E i \in 1..Len(examples) :
        /\ examples[i].prefix # <<>>
        /\ examples[i].middle # <<>>
        /\ examples[i].suffix # <<>>

\* C3: every example in the list has a non-empty prefix whose lines hold a
\* declaration directly followed by an indented line, and a middle that is
\* non-empty after stripping.
C3_PrefixAdmissibility ==
    \A i \in 1..Len(examples) :
        /\ examples[i].prefix # <<>>
        /\ contains_function_definition_with_body(PrefixLines(examples[i]))
        /\ Strip(examples[i].middle) # <<>>

\* The run returned a full batch.
C3_Witness == pc = "done" /\ examples # <<>> /\ Len(examples) = num_examples

-----------------------------------------------------------------------------
(* Properties of the retry budget (specification SpecBudget). *)

\* C4 as claimed: the failed attempts of the whole run never exceed
\* max_retries, and the loop is not entered again once max_retries
\* attempts have failed in total.
C4_TotalBudget ==
    /\ failures <= max_retries
    /\ (pc = "loop" /\ failures >= max_retries)
          => ~LoopCondition(examples, num_examples, retries, max_retries)

\* C4 as amended: the failed attempts since the last append (or since the
\* start) never exceed max_retries, and a run that returns short of
\* num_examples has failed max_retries times since its last append.
C4_ConsecutiveBudget ==
    /\ sinceAppend <= max_retries
    /\ (pc = "done" /\ Len(examples) < num_examples) => sinceAppend = max_retries

\* A run returned with an example and with more failed attempts in total
\* than max_retries.
C4_Witness ==
    /\ pc = "done"
    /\ examples # <<>>
    /\ failures > max_retries
    /\ sinceAppend = max_retries

AllEmpty == \A f \in 1..Len(index) : index[f].executed = <<>>

\* C5: a run ends only by returning, with at most num_examples examples;
\* with num_examples = 0 or max_retries = 0 it returns the empty list before
\* any iteration; when no file has executed lines the loop, once entered,
\* returns no example after max_retries iterations and without any read.
C5_Termination ==
    pc # "loop" =>
        /\ pc = "done"
        /\ Len(examples) <= num_examples
        /\ (num_examples = 0 \/ max_retries = 0) => (examples = <<>> /\ iterations = 0)
        /\ (AllEmpty /\ num_examples > 0) =>
              (examples = <<>> /\ iterations = max_retries /\ reads = 0)

\* C6: the iteration that picks a file with executed lines that cannot be
\* read counts one retry, leaves the examples alone and stays in the loop.
C6_UnreadableIsRetry ==
    [][ ( /\ iterations' = iterations + 1
          /\ index[file_path'].executed # <<>>
          /\ ~index[file_path'].readable )
        => ( /\ pc' = "loop"
             /\ retries' = retries + 1
             /\ examples' = examples ) ]_vars

-----------------------------------------------------------------------------
(* Properties of the sampler (specification SpecSampler). *)

\* The indentation levels of the declarations before line n.
DeclarationIndentsBefore(fl, n) ==
    { get_indentation_level(fl[j]) :
        j \in { i \in 1..(n - 1) : is_function_or_class_declaration(fl[i]) } }

Admissible(fl, n) ==
    /\ ~is_function_or_class_declaration(fl[n])
    /\ ~is_decorator(fl[n])
    /\ get_indentation_level(fl[n]) \notin DeclarationIndentsBefore(fl, n)

\* C7: with one executed line L and min_middle = 1 the call returns, never
\* raises, and returns the span [L] if line L is admissible and None if not.
C7_SingleExecutedLine ==
    (pc # "call" /\ Len(executed_lines) = 1 /\ min_middle = 1) =>
        /\ pc = "done"
        /\ result = IF Admissible(file_lines, executed_lines[1])
                    THEN Span(<<executed_lines[1]>>)
                    ELSE None

\* C8: a call with min_middle > max_middle ends in an error that is not
\* raised by a draw of a sampling pass; it never returns.
C8_FailsFast ==
    (pc # "call" /\ min_middle > max_middle) =>
        (pc = "raised" /\ error # "randint")

\* The executed line numbers that lie in span sp.
ExecutedIn(sp) ==
    { k \in 1..Len(executed_lines) : \E j \in 1..Len(sp) : sp[j] = executed_lines[k] }

\* C10: a returned span is a contiguous range of line numbers that starts
\* at an executed line and holds at least min_middle and at most max_middle
\* executed line numbers.
C10_SpanSize ==
    (pc = "done" /\ result.kind = "span" /\ Len(executed_lines) >= min_middle) =>
        LET sp == result.span
        IN  /\ sp # <<>>
            /\ \A j \in 1..(Len(sp) - 1) : sp[j + 1] = sp[j] + 1
            /\ \E k \in 1..Len(executed_lines) : executed_lines[k] = sp[1]
            /\ Cardinality(ExecutedIn(sp)) >= min_middle
            /\ Cardinality(ExecutedIn(sp)) <= max_middle

-----------------------------------------------------------------------------
(* Properties of the line classifier (specification SpecLines). *)

\* An empty line or a line of spaces and tabs, with or without terminator.
IsBlank(l) ==
    \A k \in 1..Len(l) : l[k] \in {" ", "\t"} \/ (k = Len(l) /\ l[k] = "\n")

\* C9 as claimed: on a blank line get_indentation_level returns 0 and
\* is_function_or_class_declaration and is_decorator return false.
C9_BlankDepthZero ==
    (cls.done /\ IsBlank(line)) =>
        (cls.depth = 0 /\ ~cls.declaration /\ ~cls.decorator)

\* C9 as amended: on a blank line get_indentation_level returns the length
\* of the line, terminator included, and is_function_or_class_declaration
\* and is_decorator return false.
C9_BlankDepthIsLength ==
    (cls.done /\ IsBlank(line)) =>
        (cls.depth = Len(line) /\ ~cls.declaration /\ ~cls.decorator)

\* A blank line of several characters that ends in a terminator was classified.
C9_Witness ==
    cls.done /\ IsBlank(line) /\ Len(line) >= 2 /\ line[Len(line)] = "\n"

====
